---- MODULE Spec2Model ----
(***************************************************************************)
(* State-machine model of the broker_agent single-page frontend: the auth  *)
(* store, the axios clients and their interceptors, the route table with   *)
(* its ProtectedRoute guard, the Signup and Login forms, and the React     *)
(* Query driven pages (conversation detail, conversation lists, document   *)
(* checklists) together with the REST backend they talk to.                *)
(***************************************************************************)
EXTENDS Integers, Sequences, FiniteSets, TLC

VARIABLES
    \* ---- store/authStore.ts (zustand) ----
    token,            \* string | null
    user,             \* User | null
    isAuthenticated,  \* boolean
    \* ---- router / rendering ----
    location,         \* current URL path
    navState,         \* react-router location.state ({from} or null)
    screen,           \* element the route table renders for `location`
    gated,            \* what <ProtectedRoute requireVerified> renders
    \* ---- backend auth + api/client.ts, api/auth.ts ----
    issued,           \* number of access tokens the backend has issued
    revoked,          \* tokens the store held when logout() cleared it
    nreq,             \* number of requests sent through the main client
    inflight,         \* main-client requests awaiting their response
    lastOutcome,      \* what the last main-client response did to its caller
    \* ---- pages/Login.tsx ----
    loginEmail,       \* the email input
    loginError,       \* the error banner
    loginPending,     \* the authApi.login request in flight, or null
    \* ---- pages/Signup.tsx ----
    fullName,         \* the inputs, each a sequence of characters
    signupEmail,
    password,
    confirmPassword,
    signupError,      \* the error banner
    success,          \* the "Check your email" screen replaces the form
    signupInflight,   \* authApi.signup requests awaiting their response
    signupEvent,      \* what the last step of the form was
    \* ---- backend: conversations and extractions ----
    srvStatus,        \* conversation id -> status
    srvQueued,        \* conversations with an accepted process request not yet started
    srvExtraction,    \* the mortgage extraction of conversation 1, or null
    \* ---- the mounted page and its React Query cache ----
    page,             \* "detail" (conversation 1), "list", "client" or "documents"
    convData,         \* data of the page's conversation(s) query, or null
    convFetching,     \* that query has a request in flight
    convInterval,     \* its refetchInterval as last evaluated: "3000" or "false"
    extData,          \* data of the ['extractions', id] query, or null
    extFetching,
    \* ---- pages/ConversationDetail.tsx: mutations and local state ----
    procPending,      \* conversation id of the process request in flight, or null
    emailPending,     \* a generate-email request is in flight
    generatedEmail,   \* the draft shown in the modal, or null
    extPending,       \* extraction id of the verify request in flight, or null
    activeTab,
    highlightTerms,
    lastClick,        \* "verifyInTranscript" right after that button was clicked
    \* ---- backend: document checklist items and transcript segments ----
    srvItems,         \* document item id -> status
    srvSegments,      \* segment id -> segment of conversation 1
    \* ---- pages/Documents.tsx ----
    checklists,       \* data of the ['checklists'] query, or null
    checklistsFetching,
    expandedChecklists,
    itemInflight,     \* updateItem requests awaiting their response, oldest first
    \* ---- pages/ConversationDetail.tsx: the transcript editor ----
    editingSegment,   \* id of the segment being edited, or null
    editText,         \* the textarea
    segPending,       \* the updateSegment request in flight, or null
    editEvent,        \* what the last step of these two pages was
    \* ---- pages/ConversationDetail.tsx with re-extraction and email sending ----
    hasEdits,         \* the "Transcript has been modified" notice
    reExtractPending, \* the re-extract request in flight, or null
    unextracted,      \* history: a saved edit that no later-started re-extraction covers
    emailSent,        \* the modal shows "Email Sent!"
    editable,         \* editableSubject and editableBody
    draftNo,          \* history: how many drafts the backend has generated
    sendPending,      \* the send-email request in flight, or null
    sentDrafts,       \* history: drafts a successful send request carried
    clientEmail       \* client?.email, "" when the client has none

authVars == <<token, user, isAuthenticated, location, navState, screen, gated,
              issued, revoked, nreq, inflight, lastOutcome,
              loginEmail, loginError, loginPending>>

signupVars == <<fullName, signupEmail, password, confirmPassword, signupError,
                success, signupInflight, signupEvent>>

srvVars == <<srvStatus, srvQueued, srvExtraction>>

queryVars == <<page, convData, convFetching, convInterval, extData, extFetching>>

detailVars == <<procPending, emailPending, generatedEmail, extPending, activeTab,
                highlightTerms>>

clickVars == <<lastClick>>

pageVars == <<srvVars, queryVars, detailVars, clickVars>>

docVars == <<srvItems, checklists, checklistsFetching, expandedChecklists, itemInflight>>

segVars == <<srvSegments, editingSegment, editText, segPending>>

editVars == <<docVars, segVars, editEvent>>

rexVars == <<hasEdits, reExtractPending, unextracted>>

mailVars == <<emailSent, editable, draftNo, sendPending, sentDrafts, clientEmail>>

reviewVars == <<rexVars, mailVars>>

vars == <<authVars, signupVars, pageVars, editVars, reviewVars>>

\* What each part of the application leaves alone
NotAuth == UNCHANGED <<signupVars, pageVars, editVars, reviewVars>>
NotSignup == UNCHANGED <<authVars, pageVars, editVars, reviewVars>>
NotPages == UNCHANGED <<authVars, signupVars, editVars, reviewVars>>
NotEdits == UNCHANGED <<authVars, signupVars, reviewVars>>
NotReview == UNCHANGED <<authVars, signupVars>>
Event(e) == editEvent' = e
ClickedVerify == lastClick' = "verifyInTranscript"
ClickedOther == lastClick' = "other"

----------------------------------------------------------------------------
(* Bounds of the model *)

\* access tokens the backend issues in one run
MaxLogins == 2
\* requests sent through the main API client in one run
MaxRequests == 2
\* characters typed after a password's fixed prefix
MaxSuffix == 2
\* signup requests in flight at once
MaxSignupRequests == 1

----------------------------------------------------------------------------
(* Values *)

\* JavaScript null / undefined
null == [null |-> TRUE]

\* An access token issued by the backend (a non-empty string, one per login)
Jwt(n) == [jwt |-> n]

Emails == {"zach@x.io", "amy@x.io"}

\* interface User
Users == [id : {0}, email : Emails, is_verified : BOOLEAN]

ProtectedPaths == {"/", "/conversations", "/conversations/1", "/clients", "/documents"}
PublicPaths == {"/login", "/signup", "/verify-email"}
Paths == ProtectedPaths \cup PublicPaths

\* HTTP error statuses of a response; null stands for an error with no
\* response at all (network failure)
ErrorStatuses == {401, 403, 500}

----------------------------------------------------------------------------
(* components/ProtectedRoute.tsx *)

NavigateLogin == "Navigate:/login"
VerificationRequired == "EmailVerificationRequired"

ProtectedRouteNoGuard(requireVerified, auth, usr, children) == children

ProtectedRouteNoVerify(requireVerified, auth, usr, children) ==
    IF ~auth THEN NavigateLogin ELSE children

ProtectedRoute(requireVerified, auth, usr, children) ==
    IF ~auth
    THEN NavigateLogin
    ELSE IF requireVerified /\ usr # null /\ ~usr.is_verified
         THEN VerificationRequired
         ELSE children

(* App.tsx: the route table *)
PageOf(path) ==
    CASE path = "/" -> "Layout:Dashboard"
      [] path = "/conversations" -> "Layout:Conversations"
      [] path = "/conversations/1" -> "Layout:ConversationDetail"
      [] path = "/clients" -> "Layout:Clients"
      [] path = "/documents" -> "Layout:Documents"

LayoutScreens == {PageOf(p) : p \in ProtectedPaths}

App(path, auth, usr) ==
    CASE path = "/login" -> "Login"
      [] path = "/signup" -> "Signup"
      [] path = "/verify-email" -> "VerifyEmail"
      [] OTHER -> ProtectedRoute(FALSE, auth, usr, PageOf(path))

\* React re-renders after every state change: the screen follows the new state
Rerender ==
    /\ screen' = App(location', isAuthenticated', user')
    /\ gated' = ProtectedRoute(TRUE, isAuthenticated', user', "VerifiedFeature")

----------------------------------------------------------------------------
(* store/authStore.ts *)

setAuthKeepFlag(t, u) ==
    /\ token' = t
    /\ user' = u
    /\ isAuthenticated' = isAuthenticated

setAuth(t, u) ==
    /\ token' = t
    /\ user' = u
    /\ isAuthenticated' = TRUE

logout ==
    /\ token' = null
    /\ user' = null
    /\ isAuthenticated' = FALSE
    /\ revoked' = IF token = null THEN revoked ELSE revoked \cup {token}

updateUser(u) ==
    /\ user' = u
    /\ UNCHANGED <<token, isAuthenticated>>

----------------------------------------------------------------------------
(* api/client.ts: the main axios instance and its interceptors *)

BaseHeaders == [h \in {"Content-Type"} |-> "application/json"]

Bearer(t) == <<"Bearer", t>>

RequestInterceptorStale(config, t) ==
    IF t # null \/ revoked # {}
    THEN [config EXCEPT !.headers =
            ("Authorization" :> Bearer(IF t # null THEN t ELSE CHOOSE x \in revoked : TRUE))
            @@ config.headers]
    ELSE config

\* api.interceptors.request.use: t is useAuthStore.getState().token
RequestInterceptor(config, t) ==
    IF t # null
    THEN [config EXCEPT !.headers = ("Authorization" :> Bearer(t)) @@ config.headers]
    ELSE config

\* error.response?.status === 401
IsUnauthorized(error) == error.response # null /\ error.response.status = 401

\* window.location.href = '/login': a full page load of /login; the Login
\* page mounts afresh and a login request of an earlier instance goes stale
LoadLoginPage ==
    /\ location' = "/login"
    /\ navState' = null
    /\ loginEmail' = ""
    /\ loginError' = ""
    /\ loginPending' = IF loginPending = null THEN null
                       ELSE [loginPending EXCEPT !.live = FALSE]

\* return Promise.reject(error): the caller's promise rejects with the error
Reject(r, error) ==
    lastOutcome' = [id |-> r.id, kind |-> "rejected", response |-> error.response,
                    authBefore |-> isAuthenticated]

ResponseInterceptorErrorNever(r, error) ==
    /\ UNCHANGED <<token, user, isAuthenticated, revoked, location, navState,
                   loginEmail, loginError, loginPending>>
    /\ Reject(r, error)

\* api.interceptors.response.use(response => response, error => ...)
ResponseInterceptorError(r, error) ==
    /\ IF IsUnauthorized(error)
       THEN logout /\ LoadLoginPage
       ELSE UNCHANGED <<token, user, isAuthenticated, revoked, location, navState,
                        loginEmail, loginError, loginPending>>
    /\ Reject(r, error)

\* Any request through the main client (a query, a mutation, a retry)
ApiSend ==
    /\ nreq < MaxRequests
    /\ nreq' = nreq + 1
    /\ LET config == RequestInterceptor([headers |-> BaseHeaders], token)
       IN inflight' = inflight \cup
            {[id |-> nreq + 1, headers |-> config.headers,
              tokenAtSend |-> token, revokedAtSend |-> revoked]}
    /\ UNCHANGED <<token, user, isAuthenticated, location, navState, screen, gated,
                   issued, revoked, lastOutcome, loginEmail, loginError, loginPending>>

ApiResponseOk(r) ==
    /\ r \in inflight
    /\ inflight' = inflight \ {r}
    /\ lastOutcome' = [id |-> r.id, kind |-> "resolved", response |-> null,
                       authBefore |-> isAuthenticated]
    /\ UNCHANGED <<token, user, isAuthenticated, location, navState, screen, gated,
                   issued, revoked, nreq, loginEmail, loginError, loginPending>>

ApiResponseError(r, resp) ==
    /\ r \in inflight
    /\ inflight' = inflight \ {r}
    /\ ResponseInterceptorError(r, [response |-> resp])
    /\ Rerender
    /\ UNCHANGED <<issued, nreq>>

ErrorResponses == {null} \cup {[status |-> s] : s \in ErrorStatuses}

----------------------------------------------------------------------------
(* pages/Login.tsx with api/auth.ts (a separate axios instance, no interceptors) *)

\* A component instance that leaves the screen keeps the closures of its last
\* render; its pending login request is no longer `live`
LeaveLogin(newPath) ==
    IF location = "/login" /\ loginPending # null
    THEN [loginPending EXCEPT !.live = FALSE]
    ELSE loginPending

LoginTypeEmail(e) ==
    /\ screen = "Login"
    /\ e # loginEmail
    /\ loginEmail' = e
    /\ loginPending' = IF loginPending # null /\ loginPending.live
                       THEN [loginPending EXCEPT !.closureEmail = e]
                       ELSE loginPending
    /\ UNCHANGED <<token, user, isAuthenticated, location, navState, screen, gated,
                   issued, revoked, nreq, inflight, lastOutcome, loginError>>

\* handleSubmit: the inputs are `required`, the button is disabled while loading
LoginSubmit ==
    /\ screen = "Login"
    /\ loginEmail # ""
    /\ loginPending = null
    /\ loginError' = ""
    /\ loginPending' = [email |-> loginEmail, closureEmail |-> loginEmail, live |-> TRUE]
    /\ UNCHANGED <<token, user, isAuthenticated, location, navState, screen, gated,
                   issued, revoked, nreq, inflight, lastOutcome, loginEmail>>

\* loginMutation.onSuccess
LoginSuccess ==
    /\ loginPending # null
    /\ issued < MaxLogins
    /\ issued' = issued + 1
    /\ LET userInfo == [id |-> 0, email |-> loginPending.closureEmail, is_verified |-> TRUE]
       IN setAuth(Jwt(issued + 1), userInfo)
    /\ location' = "/"
    /\ navState' = null
    /\ loginPending' = null
    /\ Rerender
    /\ UNCHANGED <<revoked, nreq, inflight, lastOutcome, loginEmail, loginError>>

\* loginMutation.onError: any error status, 401 included, only sets the banner
LoginError(resp, detail) ==
    /\ loginPending # null
    /\ loginPending' = null
    /\ loginError' = IF ~loginPending.live THEN loginError
                     ELSE IF detail # "" THEN detail
                     ELSE "Login failed. Please try again."
    /\ UNCHANGED <<token, user, isAuthenticated, location, navState, screen, gated,
                   issued, revoked, nreq, inflight, lastOutcome, loginEmail>>

----------------------------------------------------------------------------
(* Navigation and the remaining callers of the store *)

\* The user opens a URL or follows a link
Navigate(path) ==
    /\ path # location
    /\ location' = path
    /\ navState' = null
    /\ loginPending' = LeaveLogin(path)
    /\ loginEmail' = IF path = "/login" THEN "" ELSE loginEmail
    /\ loginError' = IF path = "/login" THEN "" ELSE loginError
    /\ UNCHANGED <<token, user, isAuthenticated>>
    /\ Rerender
    /\ UNCHANGED <<issued, revoked, nreq, inflight, lastOutcome>>

\* <Navigate to="/login" state={{ from: location }} replace />
RedirectToLogin ==
    /\ screen = NavigateLogin
    /\ location' = "/login"
    /\ navState' = [from |-> location]
    /\ loginEmail' = ""
    /\ loginError' = ""
    /\ UNCHANGED <<token, user, isAuthenticated>>
    /\ Rerender
    /\ UNCHANGED <<issued, revoked, nreq, inflight, lastOutcome, loginPending>>

\* components/Layout.tsx handleLogout
HandleLogout ==
    /\ screen \in LayoutScreens
    /\ logout
    /\ location' = "/login"
    /\ navState' = null
    /\ loginEmail' = ""
    /\ loginError' = ""
    /\ Rerender
    /\ UNCHANGED <<issued, nreq, inflight, lastOutcome, loginPending>>

\* "Sign out and try again" on the verification-required screen
SignOutAndTryAgain ==
    /\ gated = VerificationRequired
    /\ logout
    /\ UNCHANGED <<location, navState>>
    /\ Rerender
    /\ UNCHANGED <<issued, nreq, inflight, lastOutcome, loginEmail, loginError, loginPending>>

\* useAuthStore.getState().updateUser(u): exported by the store, any caller
UpdateUser(u) ==
    /\ u # user
    /\ updateUser(u)
    /\ UNCHANGED <<location, navState>>
    /\ Rerender
    /\ UNCHANGED <<issued, revoked, nreq, inflight, lastOutcome,
                   loginEmail, loginError, loginPending>>

----------------------------------------------------------------------------
(* pages/Signup.tsx *)

UppercaseChars == {"A", "B", "Z"}
LowercaseChars == {"a", "b", "z"}
DigitChars == {"0", "1", "9"}
\* the character class of the hasSymbol regular expression (its four quoting
\* characters, the two quotes, the backquote and the backslash, left out)
SymbolChars == {"!", "@", "#", "$", "%", "^", "&", "*", "(", ")", ",", ".", "?",
                ":", "{", "}", "|", "<", ">", "_", "-", "+", "=", "[", "]",
                ";", "~"}
WhitespaceChars == {" "}

\* RegExp.prototype.test for a one-character class: scan for the first match
RECURSIVE RegexTest(_, _)
RegexTest(class, str) ==
    IF str = <<>> THEN FALSE
    ELSE IF Head(str) \in class THEN TRUE
    ELSE RegexTest(class, Tail(str))

\* String.prototype.trim
RECURSIVE TrimStart(_)
TrimStart(str) ==
    IF str # <<>> /\ Head(str) \in WhitespaceChars THEN TrimStart(Tail(str)) ELSE str

RECURSIVE TrimEnd(_)
TrimEnd(str) ==
    IF str # <<>> /\ str[Len(str)] \in WhitespaceChars
    THEN TrimEnd(SubSeq(str, 1, Len(str) - 1))
    ELSE str

Trim(str) == TrimEnd(TrimStart(str))

passwordRules(pw) ==
    [minLength |-> Len(pw) >= 8,
     hasUppercase |-> RegexTest(UppercaseChars, pw),
     hasLowercase |-> RegexTest(LowercaseChars, pw),
     hasNumber |-> RegexTest(DigitChars, pw),
     hasSymbol |-> RegexTest(SymbolChars, pw)]

\* Object.values(passwordRules).every(Boolean)
isPasswordValid == \A k \in DOMAIN passwordRules(password) : passwordRules(password)[k]

passwordsMatch == password = confirmPassword /\ Len(confirmPassword) > 0

\* fullName.trim() && email && isPasswordValid && passwordsMatch, as a boolean
isFormValid ==
    /\ Trim(fullName) # <<>>
    /\ signupEmail # <<>>
    /\ isPasswordValid
    /\ passwordsMatch

\* <Button disabled={!isFormValid} loading={signupMutation.isPending}>
SubmitEnabled == isFormValid /\ signupInflight = 0

RECURSIVE SeqsUpTo(_, _)
SeqsUpTo(alphabet, n) ==
    IF n = 0 THEN {<<>>}
    ELSE LET shorter == SeqsUpTo(alphabet, n - 1)
         IN shorter \cup {Append(q, c) : q \in shorter, c \in alphabet}

\* What the user types into the password input: nothing, a prefix of six
\* characters, or a prefix followed by up to MaxSuffix further characters
PasswordPrefixes ==
    {<<>>,
     <<"a", "b", "z", "a", "b", "!">>,
     <<"a", "b", "z", "a", "b", "A">>,
     <<"A", "1", "!", "Z", "9", "?">>}
PasswordInputs ==
    {pre \o suf : pre \in PasswordPrefixes, suf \in SeqsUpTo({"A", "1", "/"}, MaxSuffix)}

\* What the user types into the confirmation: nothing, a password that meets
\* every rule, one with no symbol, one that is too short
ConfirmInputs ==
    {<<>>,
     <<"a", "b", "z", "a", "b", "!", "A", "1">>,
     <<"a", "b", "z", "a", "b", "A", "1", "/">>,
     <<"a", "b", "z", "a", "b", "!", "A">>}

FullNameInputs == {<<>>, <<" ", " ">>, <<" ", "J", "o">>}
EmailInputs == {<<>>, <<"a", "@", "b">>}

SetFullName(v) ==
    /\ ~success /\ v # fullName
    /\ fullName' = v
    /\ signupEvent' = "edit"
    /\ UNCHANGED <<signupEmail, password, confirmPassword, signupError, success, signupInflight>>

SetEmail(v) ==
    /\ ~success /\ v # signupEmail
    /\ signupEmail' = v
    /\ signupEvent' = "edit"
    /\ UNCHANGED <<fullName, password, confirmPassword, signupError, success, signupInflight>>

SetPassword(v) ==
    /\ ~success /\ v # password
    /\ password' = v
    /\ signupEvent' = "edit"
    /\ UNCHANGED <<fullName, signupEmail, confirmPassword, signupError, success, signupInflight>>

SetConfirmPassword(v) ==
    /\ ~success /\ v # confirmPassword
    /\ confirmPassword' = v
    /\ signupEvent' = "edit"
    /\ UNCHANGED <<fullName, signupEmail, password, signupError, success, signupInflight>>

handleSubmitNoMatchCheck ==
    IF Trim(fullName) = <<>>
    THEN /\ signupError' = "Full name is required"
         /\ signupEvent' = "refused"
         /\ UNCHANGED signupInflight
    ELSE IF ~isPasswordValid
    THEN /\ signupError' = "Please meet all password requirements"
         /\ signupEvent' = "refused"
         /\ UNCHANGED signupInflight
    ELSE /\ signupError' = ""
         /\ signupInflight' = signupInflight + 1
         /\ signupEvent' = "sent"

\* handleSubmit: setError(''), the three checks, then signupMutation.mutate()
handleSubmit ==
    IF Trim(fullName) = <<>>
    THEN /\ signupError' = "Full name is required"
         /\ signupEvent' = "refused"
         /\ UNCHANGED signupInflight
    ELSE IF ~isPasswordValid
    THEN /\ signupError' = "Please meet all password requirements"
         /\ signupEvent' = "refused"
         /\ UNCHANGED signupInflight
    ELSE IF ~passwordsMatch
    THEN /\ signupError' = "Passwords do not match"
         /\ signupEvent' = "refused"
         /\ UNCHANGED signupInflight
    ELSE /\ signupError' = ""
         /\ signupInflight' = signupInflight + 1
         /\ signupEvent' = "sent"

\* The form's onSubmit, however the submit event was raised (the button is one
\* way, and is enabled only when SubmitEnabled holds)
SubmitForm ==
    /\ ~success
    /\ signupInflight < MaxSignupRequests
    /\ handleSubmit
    /\ UNCHANGED <<fullName, signupEmail, password, confirmPassword, success>>

\* signupMutation.onSuccess
SignupSuccess ==
    /\ signupInflight > 0
    /\ signupInflight' = signupInflight - 1
    /\ success' = TRUE
    /\ signupEvent' = "success"
    /\ UNCHANGED <<fullName, signupEmail, password, confirmPassword, signupError>>

\* signupMutation.onError
SignupError(detail) ==
    /\ signupInflight > 0
    /\ signupInflight' = signupInflight - 1
    /\ signupError' = IF detail # "" THEN detail ELSE "Signup failed. Please try again."
    /\ signupEvent' = "error"
    /\ UNCHANGED <<fullName, signupEmail, password, confirmPassword, success>>

InitSignup ==
    /\ fullName = <<>>
    /\ signupEmail = <<>>
    /\ password = <<>>
    /\ confirmPassword = <<>>
    /\ signupError = ""
    /\ success = FALSE
    /\ signupInflight = 0
    /\ signupEvent = "init"

NextSignup ==
    \/ \E v \in FullNameInputs : SetFullName(v) /\ NotSignup
    \/ \E v \in EmailInputs : SetEmail(v) /\ NotSignup
    \/ \E v \in PasswordInputs : SetPassword(v) /\ NotSignup
    \/ \E v \in ConfirmInputs : SetConfirmPassword(v) /\ NotSignup
    \/ SubmitForm /\ NotSignup
    \/ SignupSuccess /\ NotSignup
    \/ \E detail \in {"", "Email already registered"} : SignupError(detail) /\ NotSignup

----------------------------------------------------------------------------
(* The backend behind the REST contract: README "Processing Pipeline" and the
   Conversation / MortgageExtraction types of api/client.ts *)

Conversations == {1, 2}

Statuses == {"pending", "transcribing", "diarizing", "extracting", "completed", "failed"}

ProcessingStatuses == {"transcribing", "diarizing", "extracting"}

\* What extraction can find: loan_amount and loan_term_years are optional; a
\* missing value and 0 are both falsy and are written 0 here
LoanAmounts == {0, 5, 40000}
LoanTerms == {0, 30}
Extractions ==
    [id : {1}, loan_amount : LoanAmounts, loan_term_years : LoanTerms, is_verified : {0, 1}]

\* Extraction finds nothing, or stores an unverified extraction
ExtractionOutcomes == {null} \cup {e \in Extractions : e.is_verified = 0}

NextStage(st) ==
    CASE st = "transcribing" -> "diarizing"
      [] st = "diarizing" -> "extracting"
      [] st = "extracting" -> "completed"

\* POST /processing/conversations/{id}/process was accepted; processing starts
BackendStart(c) ==
    /\ c \in srvQueued
    /\ srvStatus[c] \in {"pending", "failed"}
    /\ srvStatus' = [srvStatus EXCEPT ![c] = "transcribing"]
    /\ srvQueued' = srvQueued \ {c}
    /\ srvExtraction' = IF c = 1 THEN null ELSE srvExtraction
    /\ UNCHANGED <<queryVars, detailVars>>

\* Transcription, diarization, extraction; extraction stores what it found
BackendAdvance(c, found) ==
    /\ srvStatus[c] \in ProcessingStatuses
    /\ srvStatus' = [srvStatus EXCEPT ![c] = NextStage(srvStatus[c])]
    /\ srvExtraction' = IF c = 1 /\ srvStatus[c] = "extracting" THEN found ELSE srvExtraction
    /\ UNCHANGED <<srvQueued, queryVars, detailVars>>

BackendFail(c) ==
    /\ srvStatus[c] \in ProcessingStatuses
    /\ srvStatus' = [srvStatus EXCEPT ![c] = "failed"]
    /\ UNCHANGED <<srvQueued, srvExtraction, queryVars, detailVars>>

----------------------------------------------------------------------------
(* The conversation queries of ConversationDetail, Conversations, ClientDetail *)

\* ConversationDetail: refetchInterval of the ['conversation', id] query
DetailRefetchIntervalPending(data) ==
    IF data # null /\ data.status \in (ProcessingStatuses \cup {"pending"})
    THEN "3000" ELSE "false"

DetailRefetchInterval(data) ==
    IF data # null /\ data.status \in ProcessingStatuses THEN "3000" ELSE "false"

\* Conversations and ClientDetail: refetchInterval of the list queries
ListRefetchInterval(data) ==
    IF data # null /\ \E i \in 1..Len(data.items) : data.items[i].status \in ProcessingStatuses
    THEN "3000" ELSE "false"

RefetchInterval(pg, data) ==
    IF pg = "detail" THEN DetailRefetchInterval(data) ELSE ListRefetchInterval(data)

\* What GET /conversations/1 and GET /conversations answer
ServerConversation(c) == [id |-> c, status |-> srvStatus[c]]
ServerAnswer(pg) ==
    IF pg = "detail"
    THEN [id |-> 1, status |-> srvStatus[1], segments |-> srvSegments]
    ELSE [items |-> <<ServerConversation(1), ServerConversation(2)>>]

\* a gate that would open as soon as processing has ended, failed included
ShowsEnded(pg, data) ==
    pg = "detail" /\ data # null /\ data.status \in {"completed", "failed"}

\* conversation?.status === 'completed' on the detail page
ShowsCompleted(pg, data) == pg = "detail" /\ data # null /\ data.status = "completed"

\* The query's request succeeds: the cache takes the answer, refetchInterval
\* is evaluated on it, and the extractions query, enabled only for a
\* completed conversation, fetches when it becomes enabled
ConvFetchDone ==
    /\ page \in {"detail", "list", "client"}
    /\ convFetching
    /\ convFetching' = FALSE
    /\ convData' = ServerAnswer(page)
    /\ convInterval' = RefetchInterval(page, convData')
    /\ extFetching' = (extFetching \/
                        (ShowsCompleted(page, convData') /\ ~ShowsCompleted(page, convData)))
    /\ UNCHANGED <<page, extData, srvVars, detailVars>>

\* The request fails: the data stays what it was
ConvFetchError ==
    /\ page \in {"detail", "list", "client"}
    /\ convFetching
    /\ convFetching' = FALSE
    /\ convInterval' = RefetchInterval(page, convData)
    /\ UNCHANGED <<page, convData, extData, extFetching, srvVars, detailVars>>

\* The interval timer fires
IntervalRefetch ==
    /\ convInterval = "3000"
    /\ ~convFetching
    /\ convFetching' = TRUE
    /\ UNCHANGED <<page, convData, convInterval, extData, extFetching, srvVars, detailVars>>

\* queryClient.invalidateQueries on the page's conversation(s) query
InvalidateConversation == convFetching' = TRUE

----------------------------------------------------------------------------
(* Process: ConversationDetail (pending only) and Conversations (pending or failed) *)

CanProcess(c) ==
    /\ convData # null
    /\ procPending = null
    /\ \/ page = "detail" /\ c = 1 /\ convData.status = "pending"
       \/ page = "list" /\ convData.items[c].status \in {"pending", "failed"}

ProcessClick(c) ==
    /\ CanProcess(c)
    /\ procPending' = [id |-> c]
    /\ srvQueued' = srvQueued \cup {c}
    /\ UNCHANGED <<srvStatus, srvExtraction, queryVars, emailPending, generatedEmail,
                   extPending, activeTab, highlightTerms>>

\* processMutation.onSuccess
ProcessSuccess ==
    /\ procPending # null
    /\ procPending' = null
    /\ InvalidateConversation
    /\ UNCHANGED <<srvVars, page, convData, convInterval, extData, extFetching,
                   emailPending, generatedEmail, extPending, activeTab, highlightTerms>>

\* The request is refused: nothing was queued, no onSuccess
ProcessError ==
    /\ procPending # null
    /\ procPending.id \in srvQueued
    /\ procPending' = null
    /\ srvQueued' = srvQueued \ {procPending.id}
    /\ UNCHANGED <<srvStatus, srvExtraction, queryVars, emailPending, generatedEmail,
                   extPending, activeTab, highlightTerms>>

----------------------------------------------------------------------------
(* ConversationDetail: extraction tab, verification, email *)

\* Number.prototype.toLocaleString (en-US grouping), for num < 1,000,000
Pad3(n) == IF n < 10 THEN "00" \o ToString(n)
           ELSE IF n < 100 THEN "0" \o ToString(n) ELSE ToString(n)
ToLocaleString(num) ==
    IF num < 1000 THEN ToString(num)
    ELSE ToString(num \div 1000) \o "," \o Pad3(num % 1000)

getNumberVariations(num) ==
    <<ToString(num), ToLocaleString(num)>>
    \o (IF num >= 1000 /\ num % 1000 = 0
        THEN LET k == ToString(num \div 1000)
             IN <<k \o "k", k \o "K", k \o " thousand">>
        ELSE <<>>)
    \o <<"$" \o ToLocaleString(num), "$" \o ToString(num)>>

\* The terms verifyInTranscript passes to setHighlightTerms
HighlightTermsOf(extraction) ==
    LET terms ==
          (IF extraction.loan_amount # 0
           THEN getNumberVariations(extraction.loan_amount) ELSE <<>>)
          \o (IF extraction.loan_term_years # 0
              THEN LET y == ToString(extraction.loan_term_years)
                   IN <<y \o " year", y \o "-year", y \o " years", y>>
              ELSE <<>>)
    IN {terms[i] : i \in {j \in 1..Len(terms) : terms[j] # "" /\ Len(terms[j]) > 1}}

\* const extraction = extractions?.[0]
FirstExtraction ==
    IF extData # null /\ Len(extData.list) > 0 THEN extData.list[1] ELSE null

Tabs == {"transcript", "extraction", "actions"}

SetActiveTab(tab) ==
    /\ ShowsCompleted(page, convData)
    /\ tab # activeTab
    /\ activeTab' = tab
    /\ UNCHANGED <<srvVars, queryVars, procPending, emailPending, generatedEmail,
                   extPending, highlightTerms>>

\* "Verify in Transcript" / "View in Transcript" on the extraction tab
verifyInTranscript(extraction) ==
    /\ highlightTerms' = HighlightTermsOf(extraction)
    /\ activeTab' = "transcript"

VerifyInTranscriptClick ==
    /\ ShowsCompleted(page, convData)
    /\ activeTab = "extraction"
    /\ FirstExtraction # null
    /\ verifyInTranscript(FirstExtraction)
    /\ UNCHANGED <<srvVars, queryVars, procPending, emailPending, generatedEmail, extPending>>

ClearHighlights ==
    /\ ShowsCompleted(page, convData)
    /\ activeTab = "transcript"
    /\ highlightTerms # {}
    /\ highlightTerms' = {}
    /\ UNCHANGED <<srvVars, queryVars, procPending, emailPending, generatedEmail,
                   extPending, activeTab>>

\* The banner with the Confirm Verified button is rendered
ConfirmVerifiedShown ==
    /\ ShowsCompleted(page, convData)
    /\ activeTab = "transcript"
    /\ highlightTerms # {}
    /\ FirstExtraction # null
    /\ FirstExtraction.is_verified # 1

\* Confirm Verified: updateExtractionMutation.mutate, then setHighlightTerms([])
ConfirmVerifiedClick ==
    /\ ConfirmVerifiedShown
    /\ extPending = null
    /\ extPending' = [id |-> FirstExtraction.id]
    /\ highlightTerms' = {}
    /\ UNCHANGED <<srvVars, queryVars, procPending, emailPending, generatedEmail, activeTab>>

\* PATCH /extractions/mortgage/{id} with is_verified: 1 succeeds; onSuccess
\* invalidates ['extractions', id]
UpdateExtractionSuccess ==
    /\ extPending # null
    /\ extPending' = null
    /\ srvExtraction' = IF srvExtraction # null /\ srvExtraction.id = extPending.id
                        THEN [srvExtraction EXCEPT !.is_verified = 1]
                        ELSE srvExtraction
    /\ extFetching' = TRUE
    /\ UNCHANGED <<srvStatus, srvQueued, page, convData, convFetching, convInterval,
                   extData, procPending, emailPending, generatedEmail, activeTab,
                   highlightTerms>>

UpdateExtractionError ==
    /\ extPending # null
    /\ extPending' = null
    /\ UNCHANGED <<srvVars, queryVars, procPending, emailPending, generatedEmail,
                   activeTab, highlightTerms>>

\* GET /extractions/mortgage?conversation_id=1
ExtFetchDone ==
    /\ extFetching
    /\ extFetching' = FALSE
    /\ extData' = [list |-> IF srvExtraction = null THEN <<>> ELSE <<srvExtraction>>]
    /\ UNCHANGED <<srvVars, page, convData, convFetching, convInterval, detailVars>>

\* The Generate Email button: rendered for a completed conversation, disabled
\* while the request is loading
CanGenerateEmail ==
    /\ ShowsCompleted(page, convData)
    /\ ~emailPending

GenerateEmailClick ==
    /\ CanGenerateEmail
    /\ emailPending' = TRUE
    /\ UNCHANGED <<srvVars, queryVars, procPending, generatedEmail, extPending,
                   activeTab, highlightTerms>>

\* emailMutation.onSuccess
GenerateEmailSuccess ==
    /\ emailPending
    /\ emailPending' = FALSE
    /\ generatedEmail' = [subject |-> "Follow-up", body |-> "Dear client"]
    /\ UNCHANGED <<srvVars, queryVars, procPending, extPending, activeTab, highlightTerms>>

GenerateEmailError ==
    /\ emailPending
    /\ emailPending' = FALSE
    /\ UNCHANGED <<srvVars, queryVars, procPending, generatedEmail, extPending,
                   activeTab, highlightTerms>>

CloseEmail ==
    /\ generatedEmail # null
    /\ generatedEmail' = null
    /\ UNCHANGED <<srvVars, queryVars, procPending, emailPending, extPending,
                   activeTab, highlightTerms>>

----------------------------------------------------------------------------

\* A page is opened on a database in any state; its queries start fetching
InitPages ==
    /\ srvStatus \in [Conversations -> Statuses]
    /\ srvQueued = {}
    /\ srvExtraction \in (IF srvStatus[1] = "completed" THEN Extractions \cup {null} ELSE {null})
    /\ page \in {"detail", "list", "client"}
    /\ page = "detail" => srvStatus[2] = "completed"
    /\ convData = null
    /\ convFetching = TRUE
    /\ convInterval = "false"
    /\ extData = null
    /\ extFetching = FALSE
    /\ procPending = null
    /\ emailPending = FALSE
    /\ generatedEmail = null
    /\ extPending = null
    /\ activeTab = "transcript"
    /\ highlightTerms = {}
    /\ lastClick = "none"

NextPages ==
    \/ \E c \in Conversations : BackendStart(c) /\ NotPages /\ ClickedOther
    \/ \E c \in Conversations, found \in ExtractionOutcomes : BackendAdvance(c, found) /\ NotPages /\ ClickedOther
    \/ \E c \in Conversations : BackendFail(c) /\ NotPages /\ ClickedOther
    \/ ConvFetchDone /\ NotPages /\ ClickedOther
    \/ ConvFetchError /\ NotPages /\ ClickedOther
    \/ IntervalRefetch /\ NotPages /\ ClickedOther
    \/ \E c \in Conversations : ProcessClick(c) /\ NotPages /\ ClickedOther
    \/ ProcessSuccess /\ NotPages /\ ClickedOther
    \/ ProcessError /\ NotPages /\ ClickedOther
    \/ \E tab \in Tabs : SetActiveTab(tab) /\ NotPages /\ ClickedOther
    \/ ClearHighlights /\ NotPages /\ ClickedOther
    \/ ConfirmVerifiedClick /\ NotPages /\ ClickedOther
    \/ UpdateExtractionSuccess /\ NotPages /\ ClickedOther
    \/ UpdateExtractionError /\ NotPages /\ ClickedOther
    \/ ExtFetchDone /\ NotPages /\ ClickedOther
    \/ GenerateEmailClick /\ NotPages /\ ClickedOther
    \/ GenerateEmailSuccess /\ NotPages /\ ClickedOther
    \/ GenerateEmailError /\ NotPages /\ ClickedOther
    \/ CloseEmail /\ NotPages /\ ClickedOther
    \/ VerifyInTranscriptClick /\ NotPages /\ ClickedVerify

----------------------------------------------------------------------------
(* pages/Documents.tsx: the checklist items, and the transcript editor of   *)
(* pages/ConversationDetail.tsx                                             *)

\* one checklist (id 1) holding two document items
Checklists == {1}
Items == {1, 2}
ItemStatuses == {"pending", "received"}

\* two transcript segments of conversation 1 and what the user may type
Segments == {1, 2}
EditTexts == {"", "forty thousand"}

\* updateItem requests that may be in flight at once
MaxMutations == 2

\* a || b on strings: the empty string is falsy
Or(a, b) == IF a # "" THEN a ELSE b

\* A row that would show the requested status while its request is in flight
ItemStatusShownOptimistic(data, requests, i) ==
    IF \E k \in 1..Len(requests) : requests[k].id = i
    THEN requests[CHOOSE k \in 1..Len(requests) :
                    /\ requests[k].id = i
                    /\ \A j \in 1..Len(requests) : requests[j].id = i => j <= k].status
    ELSE data[i]

\* The status a checklist row shows: item.status of the query's data, whatever
\* requests are in flight
ItemStatusShown(data, requests, i) == data[i]

\* A paragraph that would show the text being saved
SegmentTextShownOptimistic(data, request, s) ==
    IF request # null /\ request.segmentId = s
    THEN Or(request.text, data.segments[s].text)
    ELSE Or(data.segments[s].verified_text, data.segments[s].text)

\* The text a segment's paragraph shows: segment.verified_text || segment.text
SegmentTextShown(data, request, s) ==
    Or(data.segments[s].verified_text, data.segments[s].text)

\* toggleChecklist: expand or collapse a checklist card
ToggleChecklist(id) ==
    /\ page = "documents"
    /\ checklists # null
    /\ expandedChecklists' = IF id \in expandedChecklists
                             THEN expandedChecklists \ {id}
                             ELSE expandedChecklists \cup {id}
    /\ UNCHANGED <<srvItems, checklists, checklistsFetching, itemInflight,
                   segVars, pageVars>>

\* The ['checklists'] query's request succeeds
ChecklistsFetchDone ==
    /\ page = "documents"
    /\ checklistsFetching
    /\ checklistsFetching' = FALSE
    /\ checklists' = srvItems
    /\ UNCHANGED <<srvItems, expandedChecklists, itemInflight, segVars, pageVars>>

\* The request fails: the data stays what it was
ChecklistsFetchError ==
    /\ page = "documents"
    /\ checklistsFetching
    /\ checklistsFetching' = FALSE
    /\ UNCHANGED <<srvItems, checklists, expandedChecklists, itemInflight,
                   segVars, pageVars>>

\* The checkbox of a row: updateItemMutation.mutate with the other status
ToggleItem(i) ==
    /\ page = "documents"
    /\ checklists # null
    /\ 1 \in expandedChecklists
    /\ Len(itemInflight) < MaxMutations
    /\ itemInflight' = Append(itemInflight,
          [id |-> i,
           status |-> IF ItemStatusShown(checklists, itemInflight, i) = "pending"
                      THEN "received" ELSE "pending"])
    /\ UNCHANGED <<srvItems, checklists, checklistsFetching, expandedChecklists,
                   segVars, pageVars>>

Remove(q, k) == [j \in 1..(Len(q) - 1) |-> IF j < k THEN q[j] ELSE q[j + 1]]

\* PATCH /documents/items/:id answers 2xx: the backend holds the new status,
\* onSuccess invalidates ['checklists'] and the mounted query refetches
UpdateItemSuccess(k) ==
    /\ k \in 1..Len(itemInflight)
    /\ srvItems' = [srvItems EXCEPT ![itemInflight[k].id] = itemInflight[k].status]
    /\ itemInflight' = Remove(itemInflight, k)
    /\ checklistsFetching' = TRUE
    /\ UNCHANGED <<checklists, expandedChecklists, segVars, pageVars>>

\* The request fails: updateItemMutation has no onError
UpdateItemError(k) ==
    /\ k \in 1..Len(itemInflight)
    /\ itemInflight' = Remove(itemInflight, k)
    /\ UNCHANGED <<srvItems, checklists, checklistsFetching, expandedChecklists,
                   segVars, pageVars>>

\* The pencil of a segment that is not being edited
EditSegment(s) ==
    /\ page = "detail"
    /\ convData # null
    /\ activeTab = "transcript"
    /\ editingSegment # [id |-> s]
    /\ editingSegment' = [id |-> s]
    /\ editText' = Or(convData.segments[s].verified_text, convData.segments[s].text)
    /\ UNCHANGED <<srvSegments, segPending, docVars, pageVars>>

\* Typing in the textarea
SetEditText(t) ==
    /\ page = "detail"
    /\ convData # null
    /\ editingSegment # null
    /\ editText' = t
    /\ UNCHANGED <<srvSegments, editingSegment, segPending, docVars, pageVars>>

\* Cancel
CancelEdit ==
    /\ page = "detail"
    /\ convData # null
    /\ editingSegment # null
    /\ editingSegment' = null
    /\ UNCHANGED <<srvSegments, editText, segPending, docVars, pageVars>>

\* Save, disabled while updateSegmentMutation is pending
SaveSegment ==
    /\ page = "detail"
    /\ convData # null
    /\ editingSegment # null
    /\ segPending = null
    /\ segPending' = [segmentId |-> editingSegment.id, text |-> editText]
    /\ UNCHANGED <<srvSegments, editingSegment, editText, docVars, pageVars>>

\* PATCH .../segments/:id answers 2xx: the backend holds the verified text,
\* onSuccess invalidates ['conversation', id] and closes the editor
UpdateSegmentSuccess ==
    /\ segPending # null
    /\ srvSegments' = [srvSegments EXCEPT ![segPending.segmentId] =
                          [text |-> @.text, verified_text |-> segPending.text,
                           is_verified |-> 1]]
    /\ segPending' = null
    /\ InvalidateConversation
    /\ editingSegment' = null
    /\ UNCHANGED <<editText, docVars, srvVars, page, convData, convInterval,
                   extData, extFetching, detailVars, clickVars>>

\* The request fails: updateSegmentMutation has no onError
UpdateSegmentError ==
    /\ segPending # null
    /\ segPending' = null
    /\ UNCHANGED <<srvSegments, editingSegment, editText, docVars, pageVars>>

\* Nothing is mounted of the Documents page unless it is the page shown; no
\* segment is being edited
InitEdits ==
    /\ srvItems = [i \in Items |-> "pending"]
    /\ srvSegments = [s \in Segments |->
                        [text |-> "fourty thousand", verified_text |-> "",
                         is_verified |-> 0]]
    /\ checklists = null
    /\ checklistsFetching = (page = "documents")
    /\ expandedChecklists = {}
    /\ itemInflight = <<>>
    /\ editingSegment = null
    /\ editText = ""
    /\ segPending = null
    /\ editEvent = "none"

\* The Documents page or the detail page of a completed conversation
InitEditing ==
    /\ srvStatus = [c \in Conversations |-> "completed"]
    /\ srvQueued = {}
    /\ srvExtraction = null
    /\ page \in {"documents", "detail"}
    /\ convData = null
    /\ convFetching = (page = "detail")
    /\ convInterval = "false"
    /\ extData = null
    /\ extFetching = FALSE
    /\ procPending = null
    /\ emailPending = FALSE
    /\ generatedEmail = null
    /\ extPending = null
    /\ activeTab = "transcript"
    /\ highlightTerms = {}
    /\ lastClick = "none"

NextEdits ==
    \/ \E id \in Checklists : ToggleChecklist(id) /\ NotEdits /\ Event("toggleChecklist")
    \/ ChecklistsFetchDone /\ NotEdits /\ Event("checklistsFetched")
    \/ ChecklistsFetchError /\ NotEdits /\ Event("checklistsFetchError")
    \/ \E i \in Items : ToggleItem(i) /\ NotEdits /\ Event("updateItem")
    \/ \E k \in 1..MaxMutations : UpdateItemSuccess(k) /\ NotEdits /\ Event("updateItemSuccess")
    \/ \E k \in 1..MaxMutations : UpdateItemError(k) /\ NotEdits /\ Event("updateItemError")
    \/ ConvFetchDone /\ NotEdits /\ UNCHANGED <<docVars, segVars, lastClick>> /\ Event("conversationFetched")
    \/ ConvFetchError /\ NotEdits /\ UNCHANGED <<docVars, segVars, lastClick>> /\ Event("conversationFetchError")
    \/ ExtFetchDone /\ NotEdits /\ UNCHANGED <<docVars, segVars, lastClick>> /\ Event("extractionsFetched")
    \/ \E s \in Segments : EditSegment(s) /\ NotEdits /\ Event("editSegment")
    \/ \E t \in EditTexts : SetEditText(t) /\ NotEdits /\ Event("setEditText")
    \/ CancelEdit /\ NotEdits /\ Event("cancelEdit")
    \/ SaveSegment /\ NotEdits /\ Event("updateSegment")
    \/ UpdateSegmentSuccess /\ NotEdits /\ Event("updateSegmentSuccess")
    \/ UpdateSegmentError /\ NotEdits /\ Event("updateSegmentError")

----------------------------------------------------------------------------

InitAuth ==
    /\ token = null
    /\ user = null
    /\ isAuthenticated = FALSE
    /\ location = "/"
    /\ navState = null
    /\ screen = App(location, FALSE, null)
    /\ gated = ProtectedRoute(TRUE, FALSE, null, "VerifiedFeature")
    /\ issued = 0
    /\ revoked = {}
    /\ nreq = 0
    /\ inflight = {}
    /\ lastOutcome = [id |-> 0, kind |-> "none", response |-> null, authBefore |-> FALSE]
    /\ loginEmail = ""
    /\ loginError = ""
    /\ loginPending = null

\* The route table, the login flow and the store: no traffic on the main client
NextRoutes ==
    \/ \E e \in Emails : LoginTypeEmail(e) /\ NotAuth
    \/ LoginSubmit /\ NotAuth
    \/ LoginSuccess /\ NotAuth
    \/ \E resp \in {[status |-> 401], null}, detail \in {"", "Incorrect email or password"} : LoginError(resp, detail) /\ NotAuth
    \/ \E p \in Paths : Navigate(p) /\ NotAuth
    \/ RedirectToLogin /\ NotAuth
    \/ HandleLogout /\ NotAuth
    \/ SignOutAndTryAgain /\ NotAuth
    \/ \E u \in Users : UpdateUser(u) /\ NotAuth

\* The main client's traffic, with one user logging in and out
NextApi ==
    \/ ApiSend /\ NotAuth
    \/ \E r \in inflight : ApiResponseOk(r) /\ NotAuth
    \/ \E r \in inflight, resp \in ErrorResponses : ApiResponseError(r, resp) /\ NotAuth
    \/ LoginTypeEmail("zach@x.io") /\ NotAuth
    \/ LoginSubmit /\ NotAuth
    \/ LoginSuccess /\ NotAuth
    \/ LoginError([status |-> 401], "Incorrect email or password") /\ NotAuth
    \/ \E p \in {"/login", "/conversations"} : Navigate(p) /\ NotAuth
    \/ RedirectToLogin /\ NotAuth
    \/ HandleLogout /\ NotAuth

----------------------------------------------------------------------------
(* pages/ConversationDetail.tsx as extended with the re-extract notice and  *)
(* the Review & Send Email modal                                            *)

\* drafts the backend generates in one run
MaxDrafts == 2

\* The pencil, textarea, Save and Cancel are those of the transcript editor;
\* updateSegmentMutation.onSuccess also raises the notice
SegmentSaved ==
    /\ UpdateSegmentSuccess
    /\ hasEdits' = TRUE
    /\ unextracted' = TRUE
    /\ reExtractPending' = IF reExtractPending = null THEN null ELSE [fresh |-> FALSE]
    /\ UNCHANGED mailVars

\* The Re-extract button of the notice, on the transcript tab
ReExtractClick ==
    /\ ShowsCompleted(page, convData)
    /\ activeTab = "transcript"
    /\ hasEdits
    /\ reExtractPending = null
    /\ reExtractPending' = [fresh |-> TRUE]
    /\ UNCHANGED <<hasEdits, unextracted, mailVars, pageVars, docVars, segVars>>

\* reExtractMutation.onSuccess: setHasEdits(false), whatever happened since
reExtractOnSuccess(fresh) == FALSE

\* What a re-extraction may find: unverified, with or without a loan amount
ReExtractions == {e \in Extractions :
                    e.is_verified = 0 /\ e.loan_term_years = 30 /\ e.loan_amount # 5}

\* POST .../re-extract answers 2xx: the backend holds a new extraction
ReExtractSuccess(found) ==
    /\ reExtractPending # null
    /\ reExtractPending' = null
    /\ srvExtraction' = found
    /\ extFetching' = (extFetching \/ ShowsCompleted(page, convData))
    /\ hasEdits' = reExtractOnSuccess(reExtractPending.fresh)
    /\ activeTab' = "extraction"
    /\ unextracted' = ~reExtractPending.fresh
    /\ UNCHANGED <<srvStatus, srvQueued, page, convData, convFetching, convInterval,
                   extData, procPending, emailPending, generatedEmail, extPending,
                   highlightTerms, clickVars, mailVars, docVars, segVars>>

\* The request fails: reExtractMutation has no onError
ReExtractError ==
    /\ reExtractPending # null
    /\ reExtractPending' = null
    /\ UNCHANGED <<hasEdits, unextracted, mailVars, pageVars, docVars, segVars>>

\* What the user may type into the body of the draft
BodyTexts == {"Dear client", "Dear Amy"}

\* Generate Email, reachable only while the modal's overlay is not in the way
GenerateDraftClick ==
    /\ generatedEmail = null
    /\ GenerateEmailClick
    /\ UNCHANGED <<clickVars, editVars, reviewVars>>

\* emailMutation.onSuccess: the draft fills the editable fields and the
\* sent indicator is reset
DraftGenerated ==
    /\ draftNo < MaxDrafts
    /\ GenerateEmailSuccess
    /\ draftNo' = draftNo + 1
    /\ editable' = generatedEmail'
    /\ emailSent' = FALSE
    /\ UNCHANGED <<sendPending, sentDrafts, clientEmail, rexVars, clickVars, editVars>>

\* Typing in the body of the draft
SetEditableBody(t) ==
    /\ generatedEmail # null
    /\ ~emailSent
    /\ editable' = [editable EXCEPT !.body = t]
    /\ UNCHANGED <<emailSent, draftNo, sendPending, sentDrafts, clientEmail,
                   rexVars, pageVars, editVars>>

\* Send Email: loading={sendEmailMutation.isPending} disabled={!client?.email}
SendEnabled(loading, to) == ~loading /\ to # ""

SendEmailClick ==
    /\ generatedEmail # null
    /\ ~emailSent
    /\ SendEnabled(sendPending # null, clientEmail)
    /\ sendPending' = [draft |-> draftNo, subject |-> editable.subject,
                       body |-> editable.body,
                       broker_email |-> IF user = null THEN "" ELSE user.email]
    /\ UNCHANGED <<emailSent, editable, draftNo, sentDrafts, clientEmail,
                   rexVars, pageVars, editVars>>

\* sendEmailMutation.onSuccess
SendEmailSuccess ==
    /\ sendPending # null
    /\ sendPending' = null
    /\ emailSent' = TRUE
    /\ sentDrafts' = sentDrafts \cup {sendPending.draft}
    /\ UNCHANGED <<editable, draftNo, clientEmail, rexVars, pageVars, editVars>>

\* The request fails: sendEmailMutation has no onError
SendEmailError ==
    /\ sendPending # null
    /\ sendPending' = null
    /\ UNCHANGED <<emailSent, editable, draftNo, sentDrafts, clientEmail,
                   rexVars, pageVars, editVars>>

\* Nothing of these exists before the page is used
InitReview ==
    /\ hasEdits = FALSE
    /\ reExtractPending = null
    /\ unextracted = FALSE
    /\ emailSent = FALSE
    /\ editable = [subject |-> "", body |-> ""]
    /\ draftNo = 0
    /\ sendPending = null
    /\ sentDrafts = {}

\* The detail page of a completed conversation, opened on the extraction tab
InitReviewing ==
    /\ InitAuth
    /\ InitSignup
    /\ InitReview
    /\ clientEmail \in {"", "client@x.io"}
    /\ srvStatus = [c \in Conversations |-> "completed"]
    /\ srvQueued = {}
    /\ srvExtraction \in {e \in ReExtractions : e.loan_amount = 40000}
    /\ page = "detail"
    /\ convData = null
    /\ convFetching = TRUE
    /\ convInterval = "false"
    /\ extData = null
    /\ extFetching = FALSE
    /\ procPending = null
    /\ emailPending = FALSE
    /\ generatedEmail = null
    /\ extPending = null
    /\ activeTab = "extraction"
    /\ highlightTerms = {}
    /\ lastClick = "none"
    /\ InitEdits

Untouched == UNCHANGED <<docVars, segVars, reviewVars>>
SameEvent == UNCHANGED editEvent

NextReExtract ==
    \/ ConvFetchDone /\ NotReview /\ Untouched /\ ClickedOther /\ SameEvent
    \/ ExtFetchDone /\ NotReview /\ Untouched /\ ClickedOther /\ SameEvent
    \/ \E tab \in Tabs : SetActiveTab(tab) /\ NotReview /\ Untouched /\ ClickedOther /\ SameEvent
    \/ EditSegment(1) /\ NotEdits /\ SameEvent
    \/ \E t \in EditTexts : SetEditText(t) /\ NotEdits /\ SameEvent
    \/ CancelEdit /\ NotEdits /\ SameEvent
    \/ SaveSegment /\ NotEdits /\ SameEvent
    \/ SegmentSaved /\ NotReview /\ SameEvent
    \/ UpdateSegmentError /\ NotEdits /\ SameEvent
    \/ ReExtractClick /\ NotReview /\ SameEvent
    \/ \E found \in ReExtractions : ReExtractSuccess(found) /\ NotReview /\ SameEvent
    \/ ReExtractError /\ NotReview /\ SameEvent

NextMail ==
    \/ ConvFetchDone /\ NotReview /\ Untouched /\ ClickedOther /\ SameEvent
    \/ ExtFetchDone /\ NotReview /\ Untouched /\ ClickedOther /\ SameEvent
    \/ \E tab \in Tabs : SetActiveTab(tab) /\ NotReview /\ Untouched /\ ClickedOther /\ SameEvent
    \/ GenerateDraftClick /\ NotReview
    \/ DraftGenerated /\ NotReview
    \/ GenerateEmailError /\ NotReview /\ Untouched /\ ClickedOther /\ SameEvent
    \/ CloseEmail /\ NotReview /\ Untouched /\ ClickedOther /\ SameEvent
    \/ \E t \in BodyTexts : SetEditableBody(t) /\ NotReview
    \/ SendEmailClick /\ NotReview
    \/ SendEmailSuccess /\ NotReview
    \/ SendEmailError /\ NotReview

SpecMail == InitReviewing /\ [][NextMail]_vars

\* The transcript and the notice, for a client with an email address
InitReExtract ==
    /\ InitReviewing
    /\ clientEmail = "client@x.io"

SpecReExtract == InitReExtract /\ [][NextReExtract]_vars

\* One list page over two conversations that nobody has processed yet
InitQuiet ==
    /\ InitAuth
    /\ InitSignup
    /\ InitPages
    /\ InitEdits
    /\ InitReview
    /\ clientEmail = "client@x.io"
    /\ page = "list"
    /\ srvStatus = [c \in Conversations |-> "pending"]

\* Any of the three conversation pages, nobody logged in, an empty signup form
InitBrowsing ==
    /\ InitAuth
    /\ InitSignup
    /\ InitPages
    /\ InitEdits
    /\ InitReview
    /\ clientEmail = "client@x.io"

\* The Documents page or the transcript of a completed conversation
InitEditors ==
    /\ InitAuth
    /\ InitSignup
    /\ InitEditing
    /\ InitEdits
    /\ InitReview
    /\ clientEmail = "client@x.io"

Init == InitBrowsing \/ InitEditors \/ InitReviewing

Next == NextRoutes \/ NextApi \/ NextSignup \/ NextPages \/ NextEdits \/ NextReExtract \/ NextMail

SpecRoutes == InitQuiet /\ [][NextRoutes]_vars

SpecApi == InitQuiet /\ [][NextApi]_vars

SpecSignup == InitQuiet /\ [][NextSignup]_vars

SpecPages == InitBrowsing /\ [][NextPages]_vars

SpecEdits == InitEditors /\ [][NextEdits]_vars

\* Processing on the conversation pages while every query request succeeds
NextProcessing ==
    \/ \E c \in Conversations : BackendStart(c) /\ NotPages /\ ClickedOther
    \/ \E c \in Conversations, found \in ExtractionOutcomes : BackendAdvance(c, found) /\ NotPages /\ ClickedOther
    \/ \E c \in Conversations : BackendFail(c) /\ NotPages /\ ClickedOther
    \/ ConvFetchDone /\ NotPages /\ ClickedOther
    \/ IntervalRefetch /\ NotPages /\ ClickedOther
    \/ \E c \in Conversations : ProcessClick(c) /\ NotPages /\ ClickedOther
    \/ ProcessSuccess /\ NotPages /\ ClickedOther
    \/ ProcessError /\ NotPages /\ ClickedOther
    \/ ExtFetchDone /\ NotPages /\ ClickedOther

SpecProcessing == InitBrowsing /\ [][NextProcessing]_vars

Spec == Init /\ [][Next]_vars

----------------------------------------------------------------------------
(* Properties *)

HasAuthorization(r) == "Authorization" \in DOMAIN r.headers

\* C1: while the store is unauthenticated, every protected route renders the
\* redirect to /login and never the protected page; /login, /signup and
\* /verify-email render their page whatever the store holds.
C1_RouteGuard ==
    /\ (~isAuthenticated /\ location \in ProtectedPaths) =>
          (screen = NavigateLogin /\ screen \notin LayoutScreens)
    /\ location = "/login" => screen = "Login"
    /\ location = "/signup" => screen = "Signup"
    /\ location = "/verify-email" => screen = "VerifyEmail"

C1_Witness ==
    /\ ~isAuthenticated
    /\ revoked # {}
    /\ location = "/documents"
    /\ screen = NavigateLogin

\* C7: a 401 answer to a main-client request clears the store and sends the
\* browser to /login, any other error leaves the store as it was, the error is
\* rejected to the caller in both cases, and a failed request of the auth
\* client never touches the store.
C7_AuthErrorHandling ==
    [][ /\ (lastOutcome' # lastOutcome /\ lastOutcome'.kind = "rejected") =>
              IF lastOutcome'.response # null /\ lastOutcome'.response.status = 401
              THEN /\ token' = null /\ user' = null /\ ~isAuthenticated'
                   /\ location' = "/login"
              ELSE UNCHANGED <<token, user, isAuthenticated>>
        /\ (\E r \in inflight : r \notin inflight' /\ (token' # token \/ location' # location)) =>
              (lastOutcome' # lastOutcome /\ lastOutcome'.kind = "rejected")
        /\ (loginPending # null /\ loginPending' = null /\ issued' = issued) =>
              UNCHANGED <<token, user, isAuthenticated>>
      ]_vars

C7_Witness ==
    /\ lastOutcome.kind = "rejected"
    /\ lastOutcome.response = [status |-> 401]
    /\ lastOutcome.authBefore
    /\ token = null /\ user = null /\ ~isAuthenticated
    /\ location = "/login"

\* C8: every request of the main client carries Authorization: Bearer <token>
\* for the token the store held when it was sent, none when the store held no
\* token, and never a token that a logout had cleared before the send.
C8_TokenAttachment ==
    \A r \in inflight :
        /\ r.tokenAtSend # null =>
              (HasAuthorization(r) /\ r.headers["Authorization"] = Bearer(r.tokenAtSend))
        /\ r.tokenAtSend = null => ~HasAuthorization(r)
        /\ \A t \in r.revokedAtSend :
              HasAuthorization(r) => r.headers["Authorization"] # Bearer(t)

C8_Witness ==
    \E r, q \in inflight :
        /\ r.tokenAtSend # null /\ HasAuthorization(r)
        /\ q.tokenAtSend = null /\ r.tokenAtSend \in q.revokedAtSend
        /\ ~HasAuthorization(q)

\* C9 as stated: isAuthenticated holds exactly when token is non-null, and
\* user is non-null exactly when isAuthenticated holds.
C9_AsStated ==
    /\ isAuthenticated <=> token # null
    /\ user # null <=> isAuthenticated

\* C9 amended: isAuthenticated holds exactly when token is non-null, and user
\* is non-null whenever isAuthenticated holds.
C9_StoreInvariant ==
    /\ isAuthenticated <=> token # null
    /\ isAuthenticated => user # null

C9_Witness ==
    /\ isAuthenticated
    /\ token = Jwt(2)
    /\ user # null /\ ~user.is_verified

\* C10: <ProtectedRoute requireVerified> renders its children only for an
\* authenticated store holding a user with is_verified = true; otherwise it
\* renders the redirect to /login or the verification-required screen.
C10_VerifiedGate ==
    /\ gated = "VerifiedFeature" =>
          (isAuthenticated /\ user # null /\ user.is_verified)
    /\ gated # "VerifiedFeature" => gated \in {NavigateLogin, VerificationRequired}

C10_Witness ==
    /\ isAuthenticated
    /\ user # null /\ ~user.is_verified
    /\ gated = VerificationRequired

StrongPassword(pw) ==
    /\ Len(pw) >= 8
    /\ \E i \in 1..Len(pw) : pw[i] \in UppercaseChars
    /\ \E i \in 1..Len(pw) : pw[i] \in LowercaseChars
    /\ \E i \in 1..Len(pw) : pw[i] \in DigitChars
    /\ \E i \in 1..Len(pw) : pw[i] \in SymbolChars

Sendable ==
    /\ \E i \in 1..Len(fullName) : fullName[i] \notin WhitespaceChars
    /\ StrongPassword(password)
    /\ confirmPassword # <<>> /\ confirmPassword = password

\* C2: handleSubmit sends the signup request exactly when the full name is not
\* blank, the password meets all five rules and the confirmation is non-empty
\* and equal to it; otherwise it sends nothing and sets an error message; and
\* whenever isFormValid holds, handleSubmit sends.
C2_SignupValidation ==
    /\ signupEvent = "sent" => (Sendable /\ signupInflight > 0)
    /\ signupEvent = "refused" => (~Sendable /\ signupError # "")
    /\ (signupEvent \in {"sent", "refused"} /\ isFormValid) => signupEvent = "sent"

C2_Witness ==
    /\ signupEvent = "refused"
    /\ signupError = "Passwords do not match"
    /\ StrongPassword(password)
    /\ confirmPassword # <<>>

ProcessingNow(st) == st \in {"transcribing", "diarizing", "extracting"}

\* C3: the page's conversation query has its 3-second refetch scheduled
\* exactly when the data it last fetched holds a status of transcribing,
\* diarizing or extracting (the conversation itself on the detail page, any
\* conversation of the list on the list and client pages); with no data, or
\* only pending, completed or failed, nothing is scheduled.
C3_AutoRefresh ==
    LET processing ==
          /\ convData # null
          /\ IF page = "detail" THEN ProcessingNow(convData.status)
             ELSE \E i \in 1..Len(convData.items) : ProcessingNow(convData.items[i].status)
    IN /\ convInterval = "3000" <=> processing
       /\ convInterval \in {"3000", "false"}
       /\ ENABLED IntervalRefetch => processing

C3_Witness ==
    /\ page = "list"
    /\ convData # null
    /\ convData.items[1].status = "completed"
    /\ convData.items[2].status = "extracting"
    /\ convInterval = "3000"
    /\ ~convFetching

\* C4: a generate-email request for a conversation is in flight only when the
\* conversation is completed and its mortgage extraction has been verified.
C4_EmailAfterVerification ==
    emailPending =>
        /\ srvStatus[1] = "completed"
        /\ srvExtraction # null => srvExtraction.is_verified = 1

\* C5: whatever the fields of an unverified first extraction are, clicking
\* Verify in Transcript leads to the Confirm Verified control, the one control
\* that issues updateMortgage with is_verified = 1.
C5_VerifyReachable ==
    (/\ lastClick = "verifyInTranscript"
     /\ FirstExtraction # null
     /\ FirstExtraction.is_verified # 1) => ConfirmVerifiedShown

C11_LoginOutcome ==
    [][/\ (loginPending # null /\ loginPending' = null /\ issued' = issued + 1) =>
            /\ token' = Jwt(issued + 1)
            /\ isAuthenticated'
            /\ user' # null
            /\ user'.email = loginPending.email
            /\ location' = "/"
       /\ (loginPending # null /\ loginPending' = null /\ issued' = issued) =>
            /\ UNCHANGED <<token, user, isAuthenticated, location>>
            /\ loginPending.live =>
                 loginError' \in {"Incorrect email or password",
                                  "Login failed. Please try again."}
       /\ (loginPending = null /\ loginPending' # null) => loginError' = ""
      ]_vars

\* C12: the redirect to /login saves the URL it came from in the navigation
\* state, and a login that succeeds while that state is held navigates to the
\* saved URL.
C12_ReturnToAttemptedUrl ==
    [][/\ (navState' # navState /\ navState' # null) =>
            /\ screen = NavigateLogin
            /\ location' = "/login"
            /\ navState' = [from |-> location]
       /\ (loginPending # null /\ loginPending' = null /\ issued' = issued + 1
             /\ navState # null) =>
            location' = navState.from
      ]_vars

TerminalStatuses == {"completed", "failed"}

\* C13: once a process request of the detail page has succeeded and the backend
\* has brought the conversation to completed or failed, a page still showing
\* an earlier status has a refetch in flight or its 3-second refetch
\* scheduled, so that the terminal status is displayed without the user.
C13_TerminalStatusDisplayed ==
    (/\ page = "detail"
     /\ convData # null
     /\ procPending = null
     /\ srvStatus[1] \in TerminalStatuses
     /\ convData.status \notin TerminalStatuses)
    => (convFetching \/ convInterval = "3000")

\* C14: the Process control issues no request for a conversation while a
\* process request is in flight, nor while the refetch that follows an
\* accepted request for that conversation has not yet been displayed.
C14_NoDuplicateProcessing ==
    [][(procPending' # procPending /\ procPending' # null) =>
          /\ procPending = null
          /\ ~(/\ convFetching
               /\ \/ procPending'.id \in srvQueued
                  \/ srvStatus[procPending'.id] \in ProcessingStatuses)
      ]_vars

\* C15: the extractions (and action items) request is in flight, and their
\* data and the three tabs are present, only on a detail page whose last
\* fetched conversation status is completed.
C15_ExtractionOnlyWhenCompleted ==
    LET completed == page = "detail" /\ convData # null /\ convData.status = "completed"
    IN /\ extFetching => completed
       /\ extData # null => completed
       /\ \A tab \in Tabs : ENABLED SetActiveTab(tab) => completed
       /\ activeTab # "transcript" => completed

\* the extractions request is in flight for a conversation that the page saw
\* finish processing
C15_Witness ==
    /\ page = "detail"
    /\ extFetching
    /\ convData # null /\ convData.status = "completed"
    /\ srvExtraction # null

\* C16: the success of a save of segment A closes only the editor of A: an
\* editor opened on another segment B while the save was in flight stays open
\* with its typed text.
C16_EditorIsolation ==
    [][(/\ editEvent' = "updateSegmentSuccess"
        /\ segPending # null /\ segPending' = null
        /\ editingSegment # null
        /\ editingSegment.id # segPending.segmentId)
       => /\ editingSegment' = editingSegment
          /\ editText' = editText
      ]_vars

\* C17: after a segment save has succeeded the Re-extract notice is shown
\* until a re-extraction started after that save has succeeded, also when the
\* save completes while a re-extraction is in flight.
C17_ReExtractNotice == unextracted => hasEdits

\* C18: the modal shows Email Sent! only if a send request that carried the
\* draft now displayed has succeeded.
C18_SentMatchesDraft ==
    (generatedEmail # null /\ emailSent) => draftNo \in sentDrafts

====
